---- MODULE Spec2Model ----
(***************************************************************************)
(* A model of the dynamic-tracing Dwarvifier (AddDwarves and the class     *)
(* Dwarvifier): the pass that lowers a logical tracepoint deployment into  *)
(* a physical program.  The pass is single threaded; the state machine     *)
(* follows AddDwarves and ProcessProbe loop by loop, one action per        *)
(* handler call, with the items of the logical input drawn from small      *)
(* menus.                                                                  *)
(***************************************************************************)
EXTENDS Integers, Sequences, FiniteSets, TLC

VARIABLES
  input,              \* the TracepointDeployment handed to AddDwarves
  pc,                 \* position in AddDwarves: start, probes, done, failed
  phase,              \* position in ProcessProbe: rank of the loop being run
  status,             \* Status of the pass so far: "OK" or an error code
  returned,           \* what AddDwarves returned: none, program, error
  output_program,     \* ir::physical::Program being assembled
  structs_,           \* Dwarvifier::structs_: struct name -> index in output_program.structs
  dwarf_reader_,      \* Dwarvifier::dwarf_reader_: "null" or "open"
  args_map_,          \* Dwarvifier::args_map_
  retval_info_,       \* Dwarvifier::retval_info_
  scalar_var_types_,  \* Dwarvifier::scalar_var_types_
  language_,          \* Dwarvifier::language_
  implicit_columns_,  \* Dwarvifier::implicit_columns_
  calls,              \* number of handler calls made so far (bounded)
  last                \* history: the last handler call and its arguments

vars == <<input, pc, phase, status, returned, output_program, structs_,
          dwarf_reader_, args_map_, retval_info_, scalar_var_types_,
          language_, implicit_columns_, calls, last>>

-----------------------------------------------------------------------------
(* Bounds of the model. *)

\* Handler calls (GenerateProbe and the Process* calls) in one assembly of a
\* program of maps, outputs and actions.
MaxCalls == 5
\* Handler calls in one assembly of a program of expressions.
MaxExprCalls == 3
\* Probes of the logical program.
MaxProbes == 2
\* tracepoints_size() ranges over 0..MaxTracepoints.
MaxTracepoints == 2
\* Handler calls in one assembly of a program whose names meet.
MaxNameCalls == 4

-----------------------------------------------------------------------------
(* Finite maps. *)

EmptyMap == [x \in {} |-> x]

Put(m, k, v) == (k :> v) @@ m

Last(s) == s[Len(s)]

-----------------------------------------------------------------------------
(* Strings: absl::StrSplit, substr and absl::SimpleAtoi on std::string.    *)

SubStr(s, from) == SubSeq(s, from + 1, Len(s))

RECURSIVE SplitFrom(_, _, _)
\* The components of s[start..] separated by ".", the current component
\* having begun at position start and been scanned up to (not including) i.
SplitFrom(s, start, i) ==
  IF i > Len(s) THEN <<SubSeq(s, start, Len(s))>>
  ELSE IF SubSeq(s, i, i) = "."
       THEN <<SubSeq(s, start, i - 1)>> \o SplitFrom(s, i + 1, i + 1)
       ELSE SplitFrom(s, start, i + 1)

StrSplit(s) == SplitFrom(s, 1, 1)

Digits == <<"0", "1", "2", "3", "4", "5", "6", "7", "8", "9">>

IsDigit(c) == \E d \in 1..10 : Digits[d] = c

DigitVal(c) == (CHOOSE d \in 1..10 : Digits[d] = c) - 1

RECURSIVE AllDigits(_)
AllDigits(s) == Len(s) = 0 \/ (IsDigit(SubSeq(s, 1, 1)) /\ AllDigits(SubStr(s, 1)))

RECURSIVE DigitsVal(_, _)
DigitsVal(s, acc) ==
  IF Len(s) = 0 THEN acc
  ELSE DigitsVal(SubStr(s, 1), 10 * acc + DigitVal(SubSeq(s, 1, 1)))

\* absl::SimpleAtoi: [ok, value]; an optional sign followed by at least one digit.
SimpleAtoi(s) ==
  LET signed == Len(s) > 0 /\ SubSeq(s, 1, 1) \in {"-", "+"}
      body   == IF signed THEN SubStr(s, 1) ELSE s
  IN  IF Len(body) > 0 /\ AllDigits(body)
      THEN [ok |-> TRUE,
            value |-> IF signed /\ SubSeq(s, 1, 1) = "-"
                      THEN 0 - DigitsVal(body, 0) ELSE DigitsVal(body, 0)]
      ELSE [ok |-> FALSE, value |-> -1]

RECURSIVE NatToStr(_)
NatToStr(n) == IF n < 10 THEN Digits[n + 1] ELSE NatToStr(n \div 10) \o Digits[(n % 10) + 1]

\* std::to_string(int)
IntToStr(n) == IF n < 0 THEN "-" \o NatToStr(0 - n) ELSE NatToStr(n)

-----------------------------------------------------------------------------
(* Constants of the pass. *)

kSPVarName == "sp_"
kTGIDVarName == "tgid_"
kTGIDPIDVarName == "tgid_pid_"
kTGIDStartTimeVarName == "tgid_start_time_"
kGOIDVarName == "goid_"
kKTimeVarName == "time_"
kStartKTimeNSVarName == "start_ktime_ns"
kRCVarName == "rc_"

kSPOffset == 8
kDotStr == "_D_"
kDerefStr == "_X_"

Languages == {"LANG_UNKNOWN", "C", "CPP", "GOLANG"}

kBuiltinVarNames ==
  ("GOID" :> kGOIDVarName) @@ ("TGID" :> kTGIDVarName) @@
  ("TGID_PID" :> kTGIDPIDVarName) @@
  ("TGID_START_TIME" :> kTGIDStartTimeVarName) @@ ("KTIME" :> kKTimeVarName)

\* [ok, value]
BPFHelperVariableName(builtin) ==
  IF builtin \in DOMAIN kBuiltinVarNames
  THEN [ok |-> TRUE, value |-> kBuiltinVarNames[builtin]]
  ELSE [ok |-> FALSE, value |-> "NotFound"]

StructTypeName(obj_name) == obj_name \o "_value_t"

-----------------------------------------------------------------------------
(* The type mapper. *)

kGoTypesMap ==
  ("bool" :> "BOOL") @@ ("int" :> "INT") @@ ("int8" :> "INT8") @@
  ("int16" :> "INT16") @@ ("int32" :> "INT32") @@ ("int64" :> "INT64") @@
  ("uint" :> "UINT") @@ ("uint8" :> "UINT8") @@ ("uint16" :> "UINT16") @@
  ("uint32" :> "UINT32") @@ ("uint64" :> "UINT64") @@
  ("float32" :> "FLOAT") @@ ("float64" :> "DOUBLE")

kCPPTypesMap ==
  ("bool" :> "BOOL") @@ ("short" :> "SHORT") @@ ("unsigned short" :> "USHORT") @@
  ("int" :> "INT") @@ ("unsigned int" :> "UINT") @@ ("long int" :> "LONG") @@
  ("long unsigned int" :> "ULONG") @@ ("long long int" :> "LONGLONG") @@
  ("long long unsigned int" :> "ULONGLONG") @@ ("char" :> "CHAR") @@
  ("signed char" :> "CHAR") @@ ("unsigned char" :> "UCHAR") @@
  ("double" :> "DOUBLE") @@ ("float" :> "FLOAT")

\* A table lookup that knows the C spellings for C only.
GetTypesMapCOnly(language) ==
  CASE language = "GOLANG" -> kGoTypesMap
    [] language = "C" -> kCPPTypesMap
    [] OTHER -> EmptyMap

GetTypesMap(language) ==
  CASE language = "GOLANG" -> kGoTypesMap
    [] language \in {"C", "CPP"} -> kCPPTypesMap
    [] OTHER -> EmptyMap

\* [ok, value]: the ScalarType, or the error code.
VarTypeToProtoScalarType(language, type, name) ==
  CASE type = "kBaseType" ->
         IF name \in DOMAIN GetTypesMap(language)
         THEN [ok |-> TRUE, value |-> GetTypesMap(language)[name]]
         ELSE [ok |-> FALSE, value |-> "Internal"]
    [] type = "kPointer" -> [ok |-> TRUE, value |-> "VOID_POINTER"]
    [] type = "kStruct" ->
         IF language = "GOLANG" /\ name = "string"
         THEN [ok |-> TRUE, value |-> "STRING"]
         ELSE IF language = "GOLANG" /\ name \in {"[]uint8", "[]byte"}
         THEN [ok |-> TRUE, value |-> "BYTE_ARRAY"]
         ELSE [ok |-> FALSE, value |-> "Internal"]
    [] OTHER -> [ok |-> FALSE, value |-> "Internal"]

-----------------------------------------------------------------------------
(* The DWARF reader (dwarf_tools::DwarfReader): the debug information of   *)
(* the traced binary.  For a pointer, type_name is the name of the pointee *)
(* (ProcessVarExpr hands it to GetStructMemberInfo after a dereference).   *)

VarInfo(type, type_name, offset) ==
  [type |-> type, type_name |-> type_name, offset |-> offset]

\* struct Outer { int n; Inner* y; Inner in; string s; []byte b; }
\* struct Inner { int z; int* p; int** pp; int64 w; }
StructMembers ==
  ("Outer" :> (("n" :> VarInfo("kBaseType", "int", 0)) @@
               ("y" :> VarInfo("kPointer", "Inner", 8)) @@
               ("in" :> VarInfo("kStruct", "Inner", 16)) @@
               ("s" :> VarInfo("kStruct", "string", 48)) @@
               ("b" :> VarInfo("kStruct", "[]byte", 64)))) @@
  ("Inner" :> (("z" :> VarInfo("kBaseType", "int", 4)) @@
               ("p" :> VarInfo("kPointer", "int", 8)) @@
               ("pp" :> VarInfo("kPointer", "*int", 16)) @@
               ("w" :> VarInfo("kBaseType", "int64", 24))))

\* The arguments every function of the binary takes; ~r3 is where Go puts
\* the first return value of a function of three arguments.
FunctionArgs ==
  ("a" :> VarInfo("kBaseType", "int", 0)) @@
  ("x" :> VarInfo("kPointer", "Outer", 8)) @@
  ("v" :> VarInfo("kStruct", "Outer", 16)) @@
  ("~r3" :> VarInfo("kBaseType", "int", 80))

\* Work(a, x, v) has no return value, f returns int, g returns Outer*,
\* h returns int*, k returns an Outer.
FunctionRetVals ==
  ("Work" :> [type |-> "kVoid", type_name |-> ""]) @@
  ("f" :> [type |-> "kBaseType", type_name |-> "int"]) @@
  ("g" :> [type |-> "kPointer", type_name |-> "Outer"]) @@
  ("h" :> [type |-> "kPointer", type_name |-> "int"]) @@
  ("k" :> [type |-> "kStruct", type_name |-> "Outer"])

\* [ok, value]
GetFunctionArgInfo(symbol) ==
  IF symbol \in DOMAIN FunctionRetVals
  THEN [ok |-> TRUE, value |-> FunctionArgs]
  ELSE [ok |-> FALSE, value |-> "DwarfError"]

GetFunctionRetValInfo(symbol) ==
  IF symbol \in DOMAIN FunctionRetVals
  THEN [ok |-> TRUE, value |-> FunctionRetVals[symbol]]
  ELSE [ok |-> FALSE, value |-> "DwarfError"]

GetStructMemberInfo(type_name, field_name) ==
  IF type_name \in DOMAIN StructMembers /\ field_name \in DOMAIN StructMembers[type_name]
  THEN [ok |-> TRUE, value |-> StructMembers[type_name][field_name]]
  ELSE [ok |-> FALSE, value |-> "DwarfError"]

-----------------------------------------------------------------------------
(* The state a handler works on: c.prog is the output program (the probe   *)
(* being filled is its last), c.types is scalar_var_types_, c.structs_ is  *)
(* structs_, c.status the Status the handler returns.                      *)

Ctx(prog, types, reg, st) ==
  [prog |-> prog, types |-> types, structs_ |-> reg, status |-> st]

Fail(c, code) == [c EXCEPT !.status = code]

CurProbe(prog) == Last(prog.probes)

\* output_probe->add_vars()
AddVar(c, v) ==
  [c EXCEPT !.prog.probes[Len(c.prog.probes)].vars = Append(@, v)]

\* Dwarvifier::AddVariable: v is the ScalarVariable with its oneof set by the caller.
AddVariable(c, v) ==
  [AddVar(c, v) EXCEPT !.types = Put(c.types, v.name, v.type)]

MemoryVar(name, type, base, offset) ==
  [kind |-> "scalar_var", name |-> name, type |-> type, oneof |-> "memory",
   base |-> base, offset |-> offset]

RegVar(name, type, reg) ==
  [kind |-> "scalar_var", name |-> name, type |-> type, oneof |-> "reg", reg |-> reg]

BuiltinVar(name, type, builtin) ==
  [kind |-> "scalar_var", name |-> name, type |-> type, oneof |-> "builtin",
   builtin |-> builtin]

-----------------------------------------------------------------------------
(* Dwarvifier::ProcessVarExpr *)

\* The locals of ProcessVarExpr.
VarExprState(c, type, type_name, offset, base, name) ==
  [c |-> c, type |-> type, type_name |-> type_name, offset |-> offset,
   base |-> base, name |-> name]

\* A dereference that keeps the running offset.
DerefParentKeepOffset(s, language) ==
  LET pb_type == VarTypeToProtoScalarType(language, s.type, s.type_name)
      name    == s.name \o kDerefStr
  IN  IF ~pb_type.ok THEN [s EXCEPT !.c = [s.c EXCEPT !.status = pb_type.value]]
      ELSE [s EXCEPT !.c = AddVariable(s.c, MemoryVar(name, pb_type.value, s.base, s.offset)),
                     !.name = name, !.base = name]

\* "If parent is a pointer, create a variable to dereference it."
DerefParent(s, language) ==
  LET pb_type == VarTypeToProtoScalarType(language, s.type, s.type_name)
      name    == s.name \o kDerefStr
  IN  IF ~pb_type.ok THEN [s EXCEPT !.c = Fail(s.c, pb_type.value)]
      ELSE [s EXCEPT !.c = AddVariable(s.c, MemoryVar(name, pb_type.value, s.base, s.offset)),
                     !.name = name, !.base = name, !.offset = 0]

RECURSIVE VarExprLoop(_, _, _, _)
\* The loop over components[i..], i counted from 1.
VarExprLoop(s, language, components, i) ==
  IF i > Len(components) THEN s
  ELSE LET s1 == IF s.type = "kPointer" THEN DerefParent(s, language) ELSE s
           member_info == GetStructMemberInfo(s1.type_name, components[i])
       IN  IF s1.c.status # "OK" THEN s1
           ELSE IF ~member_info.ok THEN [s1 EXCEPT !.c = Fail(s1.c, member_info.value)]
           ELSE VarExprLoop(
                  [s1 EXCEPT !.offset = @ + member_info.value.offset,
                             !.type_name = member_info.value.type_name,
                             !.type = member_info.value.type,
                             !.name = @ \o kDotStr \o components[i]],
                  language, components, i + 1)

\* The initial offset of the chain.
StartOffset(arg_info) == kSPOffset + arg_info.offset

\* Decorating the name of the root argument instead of the id.
StartNameFromRoot(var_name, components) == components[1]

\* The name the intermediate variables are decorated from.
StartName(var_name, components) == var_name

\* A leaf that keeps the pointer kind.
KeepLeafType(d) == [d EXCEPT !.name = @ \o kDerefStr]

\* "Since we are the leaf, also force the type to a BaseType."
ForceLeafType(d) == [d EXCEPT !.type = "kBaseType", !.name = @ \o kDerefStr]

\* No dereference after the loop: the pointer's pointee is taken to lie in place.
NoLeafDeref(s, language) ==
  IF s.c.status = "OK" /\ s.type = "kPointer" THEN [s EXCEPT !.type = "kBaseType"] ELSE s

\* The dereference after the loop, when the last node of the path is a pointer.
LeafDeref(s, language) ==
  IF s.c.status = "OK" /\ s.type = "kPointer"
  THEN LET d == DerefParent(s, language)
       IN  IF d.c.status # "OK" THEN d ELSE ForceLeafType(d)
  ELSE s

ProcessVarExpr(c, language, var_name, arg_info, base_var, components) ==
  LET s0 == VarExprState(c, arg_info.type, arg_info.type_name, StartOffset(arg_info),
                         base_var, StartName(var_name, components))
      s1 == VarExprLoop(s0, language, components, 2)
      s2 == LeafDeref(s1, language)
      pb_type == VarTypeToProtoScalarType(language, s2.type, s2.type_name)
  IN  IF s2.c.status # "OK" THEN s2.c
      ELSE IF ~pb_type.ok THEN Fail(s2.c, pb_type.value)
      ELSE AddVariable(s2.c, MemoryVar(var_name, pb_type.value, s2.base, s2.offset))

\* GetArgInfo
GetArgInfo(args_map, arg_name) ==
  IF arg_name \in DOMAIN args_map
  THEN [ok |-> TRUE, value |-> args_map[arg_name]]
  ELSE [ok |-> FALSE, value |-> "Internal"]

\* Dwarvifier::ProcessArgExpr: arg = [id, expr]
ProcessArgExpr(c, language, args_map, arg) ==
  IF arg.expr = "" THEN Fail(c, "InvalidArgument")
  ELSE LET components == StrSplit(arg.expr)
           arg_info   == GetArgInfo(args_map, components[1])
       IN  IF ~arg_info.ok THEN Fail(c, arg_info.value)
           ELSE ProcessVarExpr(c, language, arg.id, arg_info.value, kSPVarName, components)

\* A base return value read from memory at the return register.
RetValFromMemory(c, ret_val, pb_type) ==
  AddVariable(c, MemoryVar(ret_val.id, pb_type, kRCVarName, 0))

\* "the return value is passed directly through a register that is accessed
\* via PT_REGS_RC."
RetValRegister(c, ret_val, pb_type) ==
  AddVariable(c, RegVar(ret_val.id, pb_type, "RC"))

\* A pointer return value looked for on the stack.
PointerRetValOnStack(retval_info) ==
  [info |-> VarInfo(retval_info.type, retval_info.type_name, 0), base |-> kSPVarName]

\* "the return value is a pointer to the struct. That pointer is accessed via
\* PT_REGS_RC": the ArgInfo built for it and the base variable of its chain.
PointerRetVal(retval_info) ==
  [info |-> VarInfo(retval_info.type, retval_info.type_name, 0), base |-> kRCVarName]

\* Return values counted from the first one after three arguments.
GoRetValNameAfterArgs(index) == "~r" \o IntToStr(index + 3)

\* "Golang automatically names return variables ~r0, ~r1, etc."; the index
\* is the one the expression gives.
GoRetValName(index) == "~r" \o IntToStr(index)

\* Dwarvifier::ProcessRetValExpr: ret_val = [id, expr]
ProcessRetValExpr(c, language, args_map, retval_info, ret_val) ==
  IF ret_val.expr = "" THEN Fail(c, "InvalidArgument")
  ELSE
  LET components == StrSplit(ret_val.expr)
      index      == SimpleAtoi(SubStr(components[1], 1))
  IN
  IF ~index.ok THEN Fail(c, "InvalidArgument")
  ELSE
  CASE language = "GOLANG" ->
         LET ret_val_name == GoRetValName(index.value)
             comps        == [components EXCEPT ![1] = ret_val_name]
             arg_info     == GetArgInfo(args_map, comps[1])
         IN  IF ~arg_info.ok THEN Fail(c, arg_info.value)
             ELSE ProcessVarExpr(c, language, ret_val.id, arg_info.value, kSPVarName, comps)
    [] language \in {"C", "CPP"} ->
         IF index.value # 0 THEN Fail(c, "Internal")
         ELSE CASE retval_info.type = "kBaseType" ->
                     LET pb_type == VarTypeToProtoScalarType(language, retval_info.type,
                                                             retval_info.type_name)
                     IN  IF ~pb_type.ok THEN Fail(c, pb_type.value)
                         ELSE RetValRegister(c, ret_val, pb_type.value)
                [] retval_info.type = "kPointer" ->
                     ProcessVarExpr(c, language, ret_val.id, PointerRetVal(retval_info).info,
                                    PointerRetVal(retval_info).base, components)
                [] OTHER -> Fail(c, "Internal")
    [] OTHER -> Fail(c, "Internal")


-----------------------------------------------------------------------------
(* Special variables and constants. *)

\* Dwarvifier::AddStandardVariables
AddStandardVariables(c, language) ==
  LET c1 == AddVariable(c, RegVar(kSPVarName, "VOID_POINTER", "SP"))
      c2 == AddVariable(c1, BuiltinVar(kTGIDVarName, "INT32", "TGID"))
      c3 == AddVariable(c2, BuiltinVar(kTGIDPIDVarName, "UINT64", "TGID_PID"))
      c4 == AddVariable(c3, BuiltinVar(kTGIDStartTimeVarName, "UINT64", "TGID_START_TIME"))
      c5 == AddVariable(c4, BuiltinVar(kKTimeVarName, "UINT64", "KTIME"))
  IN  IF language = "GOLANG"
      THEN AddVariable(c5, BuiltinVar(kGOIDVarName, "INT64", "GOID"))
      ELSE c5

\* Dwarvifier::AddRetProbeVariables
AddRetProbeVariables(c, language) ==
  IF language \in {"C", "CPP"}
  THEN AddVariable(c, RegVar(kRCVarName, "VOID_POINTER", "RC"))
  ELSE c

\* Dwarvifier::AddSpecialVariables
AddSpecialVariables(c, language) ==
  LET c1 == AddStandardVariables(c, language)
  IN  IF CurProbe(c1.prog).trace_point.type = "RETURN"
      THEN AddRetProbeVariables(c1, language)
      ELSE c1

\* Dwarvifier::ProcessConstants: constant = [name, type, constant]
ProcessConstants(c, constant) ==
  AddVar(c, [kind |-> "scalar_var", name |-> constant.name, type |-> constant.type,
             oneof |-> "constant", constant |-> constant.constant])

-----------------------------------------------------------------------------
(* Maps: reads, latency, stash and delete actions. *)

\* The field struct_decl->fields(i) of a read past the end of the repeated
\* field: the process aborts, or the read yields whatever lies there.
OutOfRangeOutcomes ==
  {[abort |-> TRUE, name |-> "", type |-> "UNKNOWN"],
   [abort |-> FALSE, name |-> "", type |-> "UNKNOWN"]}

RECURSIVE UnpackMembers(_, _, _, _, _, _)
\* The loop of ProcessMapVal over value_ids[i..], i counted from 1.
UnpackMembers(c, value_ids, fields, map_var_name, i, beyond) ==
  IF i > Len(value_ids) \/ c.status # "OK" THEN c
  ELSE IF i > Len(fields) /\ beyond.abort THEN Fail(c, "Aborted")
  ELSE LET field == IF i <= Len(fields) THEN fields[i] ELSE beyond
           var   == [kind |-> "member_var", name |-> value_ids[i], type |-> field.type,
                     struct_base |-> map_var_name, is_struct_base_pointer |-> TRUE,
                     field |-> field.name]
           c1    == [AddVar(c, var) EXCEPT !.types = Put(c.types, value_ids[i], field.type)]
       IN  UnpackMembers(c1, value_ids, fields, map_var_name, i + 1, beyond)

\* Dwarvifier::ProcessMapVal: map_val = [map_name, key, value_ids]
ProcessMapVal(c, map_val, beyond) ==
  LET struct_type_name == StructTypeName(map_val.map_name)
      map_var_name     == map_val.map_name \o "_ptr"
      key_var_name     == BPFHelperVariableName(map_val.key)
  IN
  IF map_val.map_name \notin DOMAIN c.prog.maps THEN Fail(c, "Internal")
  ELSE IF struct_type_name \notin DOMAIN c.structs_ THEN Fail(c, "Internal")
  ELSE
  LET struct_decl == c.prog.structs[c.structs_[struct_type_name]]
      var == [kind |-> "map_var", name |-> map_var_name,
              type |-> c.prog.maps[map_val.map_name].value_type,
              map_name |-> map_val.map_name,
              key_variable_name |-> IF key_var_name.ok THEN key_var_name.value ELSE ""]
      c1  == AddVar(c, var)
  IN  IF ~key_var_name.ok THEN Fail(c1, key_var_name.value)
      ELSE UnpackMembers(c1, map_val.value_ids, struct_decl.fields, map_var_name, 1, beyond)

\* Dwarvifier::ProcessFunctionLatency: function_latency = [id]
ProcessFunctionLatency(c, function_latency) ==
  LET var == [kind |-> "scalar_var", name |-> function_latency.id, type |-> "INT64",
              oneof |-> "binary_expr", op |-> "SUB", lhs |-> kKTimeVarName,
              rhs |-> kStartKTimeNSVarName]
      c1  == [AddVar(c, var) EXCEPT !.types = Put(c.types, function_latency.id, "INT64")]
  IN  [c1 EXCEPT !.prog.probes[Len(c.prog.probes)].function_latency = function_latency]

RECURSIVE StructFields(_, _, _, _)
\* One struct field per variable ids[i..], named names[i] and typed from the
\* symbol table: [ok, fields]; on an unknown variable the field stays, untyped.
StructFields(types, names, ids, i) ==
  IF i > Len(ids) THEN [ok |-> TRUE, fields |-> <<>>]
  ELSE IF ids[i] \notin DOMAIN types
       THEN [ok |-> FALSE, fields |-> <<[name |-> names[i], type |-> "UNKNOWN"]>>]
       ELSE LET rest == StructFields(types, names, ids, i + 1)
            IN  [ok |-> rest.ok,
                 fields |-> <<[name |-> names[i], type |-> types[ids[i]]]>> \o rest.fields]

\* output_program->add_structs() followed by the fields set on it.
AddStruct(c, struct_decl) ==
  [c EXCEPT !.prog.structs = Append(@, struct_decl)]

\* A struct that is added to the program and not remembered.
RegisterNothing(c, struct_type_name) == c

\* structs_[struct_type_name] = struct_decl, the struct added last.
RegisterStruct(c, struct_type_name) ==
  [c EXCEPT !.structs_ = Put(c.structs_, struct_type_name, Len(c.prog.structs))]

\* Dwarvifier::GenerateMapValueStruct
GenerateMapValueStruct(c, stash_action_in, struct_type_name) ==
  LET fs == StructFields(c.types, stash_action_in.value_variable_name,
                         stash_action_in.value_variable_name, 1)
      c1 == AddStruct(c, [name |-> struct_type_name, fields |-> fs.fields])
  IN  IF ~fs.ok THEN Fail(c1, "Internal")
      ELSE RegisterStruct(c1, struct_type_name)

\* PopulateMapTypes leaving the key type as declared.
PopulateMapTypesKeepKey(c, map_name, struct_type_name) ==
  IF map_name \notin DOMAIN c.prog.maps THEN Fail(c, "Internal")
  ELSE [c EXCEPT !.prog.maps[map_name].value_type = struct_type_name]

\* PopulateMapTypes
PopulateMapTypes(c, map_name, struct_type_name) ==
  IF map_name \notin DOMAIN c.prog.maps THEN Fail(c, "Internal")
  ELSE [c EXCEPT !.prog.maps[map_name] =
                    [key_type |-> "UINT64", value_type |-> struct_type_name]]

FieldAssignments(field_names, variable_names) ==
  [i \in 1..Len(variable_names) |->
     [field_name |-> field_names[i], variable_name |-> variable_names[i]]]

\* Dwarvifier::ProcessStashAction: stash_action_in = [map_name, key, value_variable_name, cond]
ProcessStashAction(c, stash_action_in) ==
  LET variable_name    == stash_action_in.map_name \o "_value"
      struct_type_name == StructTypeName(stash_action_in.map_name)
      c1 == GenerateMapValueStruct(c, stash_action_in, struct_type_name)
      c2 == PopulateMapTypes(c1, stash_action_in.map_name, struct_type_name)
      struct_var == [kind |-> "struct_var", name |-> variable_name,
                     type |-> struct_type_name,
                     field_assignments |->
                       FieldAssignments(stash_action_in.value_variable_name,
                                        stash_action_in.value_variable_name)]
      c3 == AddVar(c2, struct_var)
      key_var_name == BPFHelperVariableName(stash_action_in.key)
      out(full) == [map_name |-> stash_action_in.map_name,
                    key_variable_name |-> IF full THEN key_var_name.value ELSE "",
                    value_variable_name |-> IF full THEN variable_name ELSE "",
                    cond |-> IF full THEN stash_action_in.cond ELSE ""]
      add(full) == [c3 EXCEPT !.prog.probes[Len(c.prog.probes)].map_stash_actions =
                                 Append(@, out(full))]
  IN  IF c1.status # "OK" THEN c1
      ELSE IF c2.status # "OK" THEN c2
      ELSE IF ~key_var_name.ok THEN Fail(add(FALSE), key_var_name.value)
      ELSE add(TRUE)

\* Dwarvifier::ProcessDeleteAction: delete_action_in = [map_name, key]
ProcessDeleteAction(c, delete_action_in) ==
  LET key_var_name == BPFHelperVariableName(delete_action_in.key)
      out == [map_name |-> delete_action_in.map_name,
              key_variable_name |-> IF key_var_name.ok THEN key_var_name.value ELSE ""]
      c1  == [c EXCEPT !.prog.probes[Len(c.prog.probes)].map_delete_actions = Append(@, out)]
  IN  IF ~key_var_name.ok THEN Fail(c1, key_var_name.value) ELSE c1

-----------------------------------------------------------------------------
(* Outputs. *)

\* A check that only rejects more variables than declared fields.
ArityAtMost(output, output_action_in) ==
  Len(output_action_in.variable_name) <= Len(output.fields)

\* The check of GenerateOutputStruct on the number of variables.
ArityMatches(output, output_action_in) ==
  Len(output.fields) = Len(output_action_in.variable_name)

\* Dwarvifier::GenerateOutputStruct
GenerateOutputStruct(c, implicit_columns, output_action_in, struct_type_name) ==
  LET implicit == StructFields(c.types, implicit_columns, implicit_columns, 1)
      partial(fields) == AddStruct(c, [name |-> struct_type_name, fields |-> fields])
  IN
  IF ~implicit.ok THEN Fail(partial(implicit.fields), "Internal")
  ELSE IF output_action_in.output_name \notin DOMAIN c.prog.outputs
  THEN Fail(partial(implicit.fields), "InvalidArgument")
  ELSE
  LET output == c.prog.outputs[output_action_in.output_name]
  IN  IF ~ArityMatches(output, output_action_in)
      THEN Fail(partial(implicit.fields), "InvalidArgument")
      ELSE LET fs == StructFields(c.types, output.fields, output_action_in.variable_name, 1)
               c1 == partial(implicit.fields \o fs.fields)
           IN  IF ~fs.ok THEN Fail(c1, "Internal")
               ELSE RegisterStruct(c1, struct_type_name)

\* PopulateOutputTypes
PopulateOutputTypes(c, output_name, struct_type_name) ==
  IF output_name \notin DOMAIN c.prog.outputs THEN Fail(c, "Internal")
  ELSE IF c.prog.outputs[output_name].struct_type # ""
          /\ c.prog.outputs[output_name].struct_type # struct_type_name
  THEN Fail(c, "InvalidArgument")
  ELSE [c EXCEPT !.prog.outputs[output_name].struct_type = struct_type_name]

\* Dwarvifier::ProcessOutputAction: output_action_in = [output_name, variable_name]
ProcessOutputAction(c, implicit_columns, output_action_in) ==
  LET variable_name    == output_action_in.output_name \o "_value"
      struct_type_name == StructTypeName(output_action_in.output_name)
      c1 == GenerateOutputStruct(c, implicit_columns, output_action_in, struct_type_name)
      c2 == PopulateOutputTypes(c1, output_action_in.output_name, struct_type_name)
      output_struct == Last(c2.prog.structs)
      sources == implicit_columns \o output_action_in.variable_name
      struct_var == [kind |-> "struct_var", name |-> variable_name,
                     type |-> struct_type_name,
                     field_assignments |->
                       FieldAssignments([i \in 1..Len(sources) |-> output_struct.fields[i].name],
                                        sources)]
      c3  == AddVar(c2, struct_var)
      out == [perf_buffer_name |-> output_action_in.output_name,
              variable_name |-> variable_name]
  IN  IF c1.status # "OK" THEN c1
      ELSE IF c2.status # "OK" THEN c2
      ELSE [c3 EXCEPT !.prog.probes[Len(c.prog.probes)].output_actions = Append(@, out)]


-----------------------------------------------------------------------------
(* The logical input and the initial state. *)

\* The maps and outputs the logical program declares.
InputMaps == ("M" :> [key_type |-> "", value_type |-> ""])

InputOutputs == ("O" :> [fields |-> <<"f1">>])

\* Declarations in which an output bears the name of a map.
InputOutputsNamed == ("O" :> [fields |-> <<"f1">>]) @@ ("M" :> [fields |-> <<"f1">>])

EmptyProgram ==
  [deployment_spec |-> "", language |-> "LANG_UNKNOWN", maps |-> EmptyMap,
   outputs |-> EmptyMap, structs |-> <<>>, probes |-> <<>>]

NoCall == [op |-> "none"]

InitWith(maps, outputs) ==
  /\ input \in [tracepoints_size : 0..MaxTracepoints, language : Languages,
                path_ok : BOOLEAN, maps : {maps}, outputs : {outputs}]
  /\ pc = "start"
  /\ phase = 0
  /\ status = "OK"
  /\ returned = "none"
  /\ output_program = EmptyProgram
  /\ structs_ = EmptyMap
  /\ dwarf_reader_ = "null"
  /\ args_map_ = EmptyMap
  /\ retval_info_ = [type |-> "kVoid", type_name |-> ""]
  /\ scalar_var_types_ = EmptyMap
  /\ language_ = "LANG_UNKNOWN"
  /\ implicit_columns_ = <<>>
  /\ calls = 0
  /\ last = NoCall

Init == InitWith(InputMaps, InputOutputs)

InitNames == InitWith(InputMaps, InputOutputsNamed)

-----------------------------------------------------------------------------
(* AddDwarves up to its loop over the probes, Dwarvifier::Setup included.  *)

\* A guard that only rejects the empty deployment.
AtLeastOneTracepoint(n) == n >= 1

\* The guard of AddDwarves on the number of tracepoints.
OneTracepoint(n) == n = 1

\* Setup putting the goroutine id first.
ImplicitColumnsGoidFirst(language) ==
  IF language = "GOLANG"
  THEN <<kGOIDVarName, kTGIDVarName, kTGIDStartTimeVarName, kKTimeVarName>>
  ELSE <<kTGIDVarName, kTGIDStartTimeVarName, kKTimeVarName>>

\* The implicit columns Setup derives from the language.
ImplicitColumns(language) ==
  IF language = "GOLANG"
  THEN <<kTGIDVarName, kTGIDStartTimeVarName, kKTimeVarName, kGOIDVarName>>
  ELSE <<kTGIDVarName, kTGIDStartTimeVarName, kKTimeVarName>>

\* The output declaration AddDwarves copies: name, fields and the struct name.
CopyOutput(name, output) ==
  [fields |-> output.fields, struct_type |-> StructTypeName(name)]

AddDwarves ==
  /\ pc = "start"
  /\ last' = [op |-> "AddDwarves"]
  /\ UNCHANGED <<input, phase, structs_, args_map_, retval_info_, scalar_var_types_, calls>>
  /\ IF ~OneTracepoint(input.tracepoints_size)
     THEN /\ status' = "InvalidArgument"
          /\ pc' = "failed"
          /\ returned' = "error"
          /\ UNCHANGED <<output_program, dwarf_reader_, language_, implicit_columns_>>
     ELSE /\ output_program' =
               [EmptyProgram EXCEPT
                  !.deployment_spec = "binary",
                  !.language = input.language,
                  !.maps = input.maps,
                  !.outputs = [n \in DOMAIN input.outputs |-> CopyOutput(n, input.outputs[n])]]
          /\ IF ~input.path_ok
             THEN /\ status' = "DwarfError"
                  /\ pc' = "failed"
                  /\ returned' = "error"
                  /\ UNCHANGED <<dwarf_reader_, language_, implicit_columns_>>
             ELSE /\ dwarf_reader_' = "open"
                  /\ language_' = input.language
                  /\ implicit_columns_' = ImplicitColumns(input.language)
                  /\ status' = "OK"
                  /\ pc' = "probes"
                  /\ returned' = "none"

-----------------------------------------------------------------------------
(* The handler calls of AddDwarves' loop over the probes and of            *)
(* ProcessProbe's loops, in the order ProcessProbe runs them.              *)

Here == Ctx(output_program, scalar_var_types_, structs_, "OK")

NumVars == IF output_program.probes = <<>> THEN 0 ELSE Len(CurProbe(output_program).vars)

\* The record of a call: the handler, its argument, and the sizes before it.
Call(op, item) ==
  [op |-> op, item |-> item, nvars |-> NumVars,
   nstructs |-> Len(output_program.structs), nprobes |-> Len(output_program.probes)]

\* A pass that notes an error and goes on with the next step.
CommitAndContinue(r, rank, call) ==
  /\ output_program' = r.prog
  /\ scalar_var_types_' = r.types
  /\ structs_' = r.structs_
  /\ status' = r.status
  /\ pc' = "probes"
  /\ returned' = "none"
  /\ dwarf_reader_' = dwarf_reader_
  /\ phase' = rank
  /\ calls' = calls + 1
  /\ last' = call
  /\ UNCHANGED <<input, language_, implicit_columns_>>

\* A handler returned r: on an error AddDwarves returns it at once.
Commit(r, rank, call) ==
  /\ output_program' = r.prog
  /\ scalar_var_types_' = r.types
  /\ structs_' = r.structs_
  /\ status' = r.status
  /\ pc' = IF r.status = "OK" THEN "probes" ELSE "failed"
  /\ returned' = IF r.status = "OK" THEN "none" ELSE "error"
  /\ dwarf_reader_' = IF r.status = "OK" THEN dwarf_reader_ ELSE "released"
  /\ phase' = rank
  /\ calls' = calls + 1
  /\ last' = call
  /\ UNCHANGED <<input, language_, implicit_columns_>>

\* Loops that may run in any order.
InProbeAnyOrder(rank, max_calls) == pc = "probes" /\ phase >= 1 /\ calls < max_calls

InProbe(rank, max_calls) == pc = "probes" /\ phase >= 1 /\ phase <= rank /\ calls < max_calls

NewProbe(probe) ==
  [name |-> probe.name, trace_point |-> probe.trace_point, vars |-> <<>>,
   map_stash_actions |-> <<>>, map_delete_actions |-> <<>>, output_actions |-> <<>>,
   printks |-> <<>>, function_latency |-> [id |-> ""]]

\* A symbol table carried over from the previous probe.
KeptForProbe(types) == types

\* scalar_var_types_.clear()
ClearedForProbe(types) == EmptyMap

\* Dwarvifier::GenerateProbe up to ProcessProbe's first loop.
GenerateProbe(probe, max_calls) ==
  /\ pc = "probes"
  /\ calls < max_calls
  /\ Len(output_program.probes) < MaxProbes
  /\ LET args   == GetFunctionArgInfo(probe.trace_point.symbol)
         retval == GetFunctionRetValInfo(probe.trace_point.symbol)
         c0     == Ctx([output_program EXCEPT !.probes = Append(@, NewProbe(probe))],
                       ClearedForProbe(scalar_var_types_), structs_, "OK")
     IN  IF ~args.ok
         THEN /\ Commit(Fail(Here, args.value), 0, Call("GenerateProbe", probe))
              /\ UNCHANGED <<args_map_, retval_info_>>
         ELSE IF ~retval.ok
         THEN /\ Commit(Fail(Here, retval.value), 0, Call("GenerateProbe", probe))
              /\ args_map_' = args.value
              /\ UNCHANGED retval_info_
         ELSE /\ Commit(AddSpecialVariables(c0, language_), 1, Call("GenerateProbe", probe))
              /\ args_map_' = args.value
              /\ retval_info_' = retval.value

ConstantsStep(constant, max_calls) ==
  /\ InProbe(1, max_calls)
  /\ Commit(ProcessConstants(Here, constant), 1, Call("ProcessConstants", constant))
  /\ UNCHANGED <<args_map_, retval_info_>>

ArgExprStep(arg, max_calls) ==
  /\ InProbe(2, max_calls)
  /\ Commit(ProcessArgExpr(Here, language_, args_map_, arg), 2, Call("ProcessArgExpr", arg))
  /\ UNCHANGED <<args_map_, retval_info_>>

RetValExprStep(ret_val, max_calls) ==
  /\ InProbe(3, max_calls)
  /\ Commit(ProcessRetValExpr(Here, language_, args_map_, retval_info_, ret_val), 3,
            Call("ProcessRetValExpr", ret_val))
  /\ UNCHANGED <<args_map_, retval_info_>>

MapValStep(map_val, max_calls) ==
  /\ InProbe(4, max_calls)
  /\ \E beyond \in OutOfRangeOutcomes :
       Commit(ProcessMapVal(Here, map_val, beyond), 4, Call("ProcessMapVal", map_val))
  /\ UNCHANGED <<args_map_, retval_info_>>

FunctionLatencyStep(function_latency, max_calls) ==
  /\ InProbe(4, max_calls)
  /\ Commit(ProcessFunctionLatency(Here, function_latency), 5,
            Call("ProcessFunctionLatency", function_latency))
  /\ UNCHANGED <<args_map_, retval_info_>>

StashActionStep(stash_action, max_calls) ==
  /\ InProbe(6, max_calls)
  /\ Commit(ProcessStashAction(Here, stash_action), 6, Call("ProcessStashAction", stash_action))
  /\ UNCHANGED <<args_map_, retval_info_>>

DeleteActionStep(delete_action, max_calls) ==
  /\ InProbe(7, max_calls)
  /\ Commit(ProcessDeleteAction(Here, delete_action), 7,
            Call("ProcessDeleteAction", delete_action))
  /\ UNCHANGED <<args_map_, retval_info_>>

OutputActionStep(output_action, max_calls) ==
  /\ InProbe(8, max_calls)
  /\ Commit(ProcessOutputAction(Here, implicit_columns_, output_action), 8,
            Call("ProcessOutputAction", output_action))
  /\ UNCHANGED <<args_map_, retval_info_>>

\* p->add_printks()->CopyFrom(printk)
PrintkStep(printk, max_calls) ==
  /\ InProbe(9, max_calls)
  /\ Commit([Here EXCEPT !.prog.probes[Len(output_program.probes)].printks = Append(@, printk)],
            9, Call("printk", printk))
  /\ UNCHANGED <<args_map_, retval_info_>>

\* AddDwarves returns output_program.
ReturnProgram ==
  /\ pc = "probes"
  /\ pc' = "done"
  /\ returned' = "program"
  /\ dwarf_reader_' = "released"
  /\ last' = [op |-> "return"]
  /\ UNCHANGED <<input, phase, status, output_program, structs_, args_map_, retval_info_,
                 scalar_var_types_, language_, implicit_columns_, calls>>

-----------------------------------------------------------------------------
(* The items the logical program is made of, and the specifications.       *)

Probe(symbol, type) == [name |-> "probe", trace_point |-> [symbol |-> symbol, type |-> type]]

Arg(id, expr) == [id |-> id, expr |-> expr]

MapVal(map_name, key, value_ids) ==
  [map_name |-> map_name, key |-> key, value_ids |-> value_ids]

Stash(map_name, key, ids) ==
  [map_name |-> map_name, key |-> key, value_variable_name |-> ids, cond |-> "cond"]

Delete(map_name, key) == [map_name |-> map_name, key |-> key]

Output(output_name, ids) == [output_name |-> output_name, variable_name |-> ids]

\* Programs made of maps, outputs and actions over a few variables.
ProgramItems ==
  [max_calls |-> MaxCalls,
   probes    |-> {Probe("Work", "ENTRY"), Probe("g", "RETURN"), Probe("nosym", "ENTRY")},
   consts    |-> {[name |-> "K", type |-> "INT64", constant |-> "1"]},
   args      |-> {Arg("A", "a")},
   ret_vals  |-> {Arg("R", "$3")},
   map_vals  |-> {MapVal("M", "TGID_PID", <<"start_ktime_ns">>),
                  MapVal("N", "TGID_PID", <<"start_ktime_ns">>)},
   latencies |-> {[id |-> "lat"]},
   stashes   |-> {Stash("M", "TGID_PID", <<"time_">>),
                  Stash("M", "TGID_PID", <<"tgid_", "time_">>),
                  Stash("M", "TGID_PID", <<"A">>), Stash("N", "TGID_PID", <<"time_">>),
                  Stash("M", "STACK_ID", <<"time_">>)},
   deletes   |-> {Delete("M", "TGID_PID"), Delete("M", "GOID"), Delete("N", "STACK_ID")},
   outputs   |-> {Output("O", <<"time_">>), Output("O", <<"A">>), Output("O", <<>>),
                  Output("Q", <<"time_">>)},
   printks   |-> {[text |-> "hello"]}]

\* Programs of argument and return-value expressions.
ExprItems ==
  [max_calls |-> MaxExprCalls,
   probes    |-> {Probe(s, t) : s \in {"Work", "f", "g", "h", "k", "nosym"}, t \in {"ENTRY", "RETURN"}},
   consts    |-> {[name |-> "K", type |-> "INT64", constant |-> "1"]},
   args      |-> {Arg("A", e) : e \in {"", "a", "x.n", "x.y.z", "x.y.p", "x.y.pp", "x.in.w",
                                       "v.in.z", "v.y.w", "v.s", "v.b", "x", "v", "x.none", "w"}}
                 \cup {Arg("B", "x.y.z")},
   ret_vals  |-> {Arg("R", e) : e \in {"", "$0", "$0.n", "$0.y.z", "$3", "$1", "x0", "$"}},
   map_vals  |-> {MapVal("M", "TGID_PID", <<"start_ktime_ns">>)},
   latencies |-> {[id |-> "lat"]},
   stashes   |-> {Stash("M", "TGID_PID", <<"A">>)},
   deletes   |-> {Delete("M", "TGID_PID")},
   outputs   |-> {Output("O", <<"A">>)},
   printks   |-> {[text |-> "hello"]}]

\* Programs whose ids, constants, maps and outputs share names.
NameItems ==
  [max_calls |-> MaxNameCalls,
   probes    |-> {Probe("Work", "ENTRY")},
   consts    |-> {[name |-> "K", type |-> "INT64", constant |-> "1"]},
   args      |-> {Arg("A", "a"), Arg("time_", "a")},
   ret_vals  |-> {Arg("R", "$3")},
   map_vals  |-> {MapVal("M", "TGID_PID", <<"start_ktime_ns">>),
                  MapVal("M", "TGID_PID", <<"start_ktime_ns", "more">>)},
   latencies |-> {[id |-> "lat"]},
   stashes   |-> {Stash("M", "TGID_PID", <<"time_">>), Stash("M", "TGID_PID", <<"K">>)},
   deletes   |-> {Delete("M", "TGID_PID"), Delete("N", "TGID_PID")},
   outputs   |-> {Output("O", <<"time_">>), Output("M", <<"time_">>), Output("Q", <<"time_">>)},
   printks   |-> {[text |-> "hello"]}]

NextOver(items) ==
  \/ AddDwarves
  \/ \E probe \in items.probes : GenerateProbe(probe, items.max_calls)
  \/ \E constant \in items.consts : ConstantsStep(constant, items.max_calls)
  \/ \E arg \in items.args : ArgExprStep(arg, items.max_calls)
  \/ \E ret_val \in items.ret_vals : RetValExprStep(ret_val, items.max_calls)
  \/ \E map_val \in items.map_vals : MapValStep(map_val, items.max_calls)
  \/ \E function_latency \in items.latencies : FunctionLatencyStep(function_latency, items.max_calls)
  \/ \E stash_action \in items.stashes : StashActionStep(stash_action, items.max_calls)
  \/ \E delete_action \in items.deletes : DeleteActionStep(delete_action, items.max_calls)
  \/ \E output_action \in items.outputs : OutputActionStep(output_action, items.max_calls)
  \/ \E printk \in items.printks : PrintkStep(printk, items.max_calls)
  \/ ReturnProgram

Next == NextOver(ProgramItems)

Spec == Init /\ [][Next]_vars

NextExpr == NextOver(ExprItems)

SpecExpr == Init /\ [][NextExpr]_vars

NextNames == NextOver(NameItems)

\* The kinds and type names the type mapper is applied to.
VarTypes == {"kBaseType", "kPointer", "kStruct", "kVoid"}

TypeNames ==
  DOMAIN kGoTypesMap \cup DOMAIN kCPPTypesMap
    \cup {"string", "[]uint8", "[]byte", "Outer", "*int", ""}

\* The type mapper alone: the state holds its arguments, then its result.
InitTypes ==
  /\ input \in [language : Languages, type : VarTypes, name : TypeNames]
  /\ pc = "start"
  /\ phase = 0
  /\ status = "OK"
  /\ returned = "none"
  /\ output_program = EmptyProgram
  /\ structs_ = EmptyMap
  /\ dwarf_reader_ = "open"
  /\ args_map_ = EmptyMap
  /\ retval_info_ = [type |-> "kVoid", type_name |-> ""]
  /\ scalar_var_types_ = EmptyMap
  /\ language_ = input.language
  /\ implicit_columns_ = ImplicitColumns(input.language)
  /\ calls = 0
  /\ last = NoCall

\* A call of Dwarvifier::VarTypeToProtoScalarType(type, name).
TypeMapperStep ==
  /\ pc = "start"
  /\ LET r == VarTypeToProtoScalarType(language_, input.type, input.name)
     IN  /\ last' = [op |-> "VarTypeToProtoScalarType", result |-> r]
         /\ status' = IF r.ok THEN "OK" ELSE r.value
  /\ pc' = "done"
  /\ calls' = calls + 1
  /\ UNCHANGED <<input, phase, returned, output_program, structs_, dwarf_reader_, args_map_,
                 retval_info_, scalar_var_types_, language_, implicit_columns_>>

NextTypes == TypeMapperStep

SpecTypes == InitTypes /\ [][NextTypes]_vars

SpecNames == InitNames /\ [][NextNames]_vars


-----------------------------------------------------------------------------
(* Properties. *)

Assembled == returned = "program"

Names(seq) == [i \in 1..Len(seq) |-> seq[i].name]

EndsWith(str, suffix) ==
  Len(str) >= Len(suffix) /\ SubSeq(str, Len(str) - Len(suffix) + 1, Len(str)) = suffix

\* The variables the last handler call appended to the probe being filled.
Emitted ==
  LET vs == CurProbe(output_program).vars IN SubSeq(vs, last.nvars + 1, Len(vs))

IsMemory(v) == v.kind = "scalar_var" /\ v.oneof = "memory"

StructsNamed(name) ==
  {i \in 1..Len(output_program.structs) : output_program.structs[i].name = name}

\* C1: in every probe of a successfully assembled program, the base of every
\* Memory variable names a variable that appears strictly earlier in the same
\* probe's variable list (for chains rooted at sp_ and at rc_, entry and
\* return probes, every language).
C1_BaseDefinedEarlier ==
  Assembled =>
    \A p \in 1..Len(output_program.probes) :
      LET vs == output_program.probes[p].vars
      IN  \A i \in 1..Len(vs) :
            IsMemory(vs[i]) => \E j \in 1..(i - 1) : vs[j].name = vs[i].base

\* The columns every output record starts with.
ExpectedImplicitColumns ==
  IF input.language = "GOLANG"
  THEN <<"tgid_", "tgid_start_time_", "time_", "goid_">>
  ELSE <<"tgid_", "tgid_start_time_", "time_">>

\* C2: every struct generated for an output action starts with the implicit
\* column names in order (tgid_, tgid_start_time_, time_, and goid_ last for
\* Go), followed by one field per declared output field; so time_ is a field
\* of every output struct.
C2_OutputStructPrefix ==
  status = "OK" =>
    \A o \in DOMAIN output_program.outputs :
      \A i \in StructsNamed(o \o "_value_t") :
        LET fields == output_program.structs[i].fields
        IN  /\ Names(fields) = ExpectedImplicitColumns \o input.outputs[o].fields
            /\ \E k \in 1..Len(fields) : fields[k].name = "time_"

C2_Witness ==
  /\ Assembled
  /\ input.language = "GOLANG"
  /\ StructsNamed("O_value_t") # {}
  /\ last.op = "return"

\* The maps stash actions of the program write and the outputs its output
\* actions write.
StashedMaps ==
  UNION {{output_program.probes[p].map_stash_actions[i].map_name :
            i \in 1..Len(output_program.probes[p].map_stash_actions)} :
         p \in 1..Len(output_program.probes)}

WrittenOutputs ==
  UNION {{output_program.probes[p].output_actions[i].perf_buffer_name :
            i \in 1..Len(output_program.probes[p].output_actions)} :
         p \in 1..Len(output_program.probes)}

\* C3: after assembly, for every map name N targeted by a stash action and
\* every output name N targeted by an output action the struct list holds
\* exactly one struct named N_value_t, however many actions target N, and
\* the map's value type / the output's struct type is that name.
C3_OneStructPerName ==
  Assembled =>
    /\ \A m \in StashedMaps :
         /\ Cardinality(StructsNamed(m \o "_value_t")) = 1
         /\ output_program.maps[m].value_type = m \o "_value_t"
    /\ \A o \in WrittenOutputs :
         /\ Cardinality(StructsNamed(o \o "_value_t")) = 1
         /\ output_program.outputs[o].struct_type = o \o "_value_t"

\* C4: in a successfully assembled program every struct type name carried by
\* an output or by a map names a struct of the program's struct list, whether
\* or not a probe writes to that output or map.
C4_StructTypesDefined ==
  Assembled =>
    /\ \A o \in DOMAIN output_program.outputs :
         output_program.outputs[o].struct_type # ""
           => StructsNamed(output_program.outputs[o].struct_type) # {}
    /\ \A m \in DOMAIN output_program.maps :
         output_program.maps[m].value_type # ""
           => StructsNamed(output_program.maps[m].value_type) # {}

\* C5: a struct, once registered under a name, is never redefined with a
\* different shape: a step of the pass that would give a registered name
\* other fields fails instead of replacing the registry entry.
C5_NoRedefinition ==
  [][\A n \in DOMAIN structs_ :
       status' = "OK" =>
         /\ n \in DOMAIN structs_'
         /\ output_program'.structs[structs_'[n]].fields
              = output_program.structs[structs_[n]].fields]_vars

\* C6: AddDwarves on a deployment with zero or with two or more tracepoints
\* returns InvalidArgument and no program, before any map, output or probe
\* is processed and before the DWARF reader is opened.
C6_OneTracepointRule ==
  (pc # "start" /\ input.tracepoints_size # 1) =>
    /\ status = "InvalidArgument"
    /\ returned = "error"
    /\ pc = "failed"
    /\ output_program = EmptyProgram
    /\ dwarf_reader_ = "null"
    /\ structs_ = EmptyMap
    /\ calls = 0

C6_Witness ==
  /\ pc = "failed"
  /\ input.tracepoints_size = 2
  /\ status = "InvalidArgument"


\* The last call lowered an argument expression.
ArgLowered == last.op = "ProcessArgExpr" /\ status = "OK"

\* The DWARF nodes on the path of an expression: the root and each selected
\* field, read off the debug information; a field that does not resolve ends
\* the path with an "unresolved" node.
RECURSIVE PathNodes(_, _)
PathNodes(node, fields) ==
  IF fields = <<>> THEN <<node>>
  ELSE IF node.type_name \in DOMAIN StructMembers
          /\ Head(fields) \in DOMAIN StructMembers[node.type_name]
       THEN <<node>> \o PathNodes(StructMembers[node.type_name][Head(fields)], Tail(fields))
       ELSE <<node, [type |-> "unresolved", type_name |-> "", offset |-> 0]>>

\* The path of the argument expression of the last call.
ArgPath ==
  LET components == StrSplit(last.item.expr)
  IN  IF last.item.expr # "" /\ components[1] \in DOMAIN FunctionArgs
      THEN PathNodes(FunctionArgs[components[1]], Tail(components))
      ELSE <<[type |-> "unresolved", type_name |-> "", offset |-> 0]>>

\* The positions of the pointer-kind nodes of a path, in order.
RECURSIVE PointerPositions(_, _)
PointerPositions(nodes, k) ==
  IF k > Len(nodes) THEN <<>>
  ELSE (IF nodes[k].type = "kPointer" THEN <<k>> ELSE <<>>) \o PointerPositions(nodes, k + 1)

\* C7 as stated: for the Go argument expression x.y.z (x a pointer to a struct
\* whose field y points to a struct with base field z) the variables emitted
\* are x_X_, x_X__D_y, x_X__D_y_X_ and then the leaf under the id.
C7_NamesFromRoot ==
  (ArgLowered /\ language_ = "GOLANG" /\ last.item.expr = "x.y.z") =>
    Names(Emitted) = <<"x_X_", "x_X__D_y", "x_X__D_y_X_", last.item.id>>

\* C7 amended: for the Go argument expression x.y.z with id I the variables
\* emitted are, in order, I_X_ and I_X__D_y_X_ (the decorations are appended
\* to the id, and no variable is emitted for the field selection I_X__D_y),
\* and then the leaf named I.
C7_NamesFromId ==
  (ArgLowered /\ language_ = "GOLANG" /\ last.item.expr = "x.y.z") =>
    Names(Emitted) = <<last.item.id \o "_X_", last.item.id \o "_X__D_y_X_", last.item.id>>

C7_Witness ==
  /\ ArgLowered
  /\ language_ = "GOLANG"
  /\ last.item = [id |-> "B", expr |-> "x.y.z"]
  /\ Len(Emitted) = 3

\* The scalar types the type mapper gives a base kind, and the Go built-ins.
BaseScalarTypes ==
  {"BOOL", "INT", "INT8", "INT16", "INT32", "INT64", "UINT", "UINT8", "UINT16", "UINT32",
   "UINT64", "FLOAT", "DOUBLE", "SHORT", "USHORT", "LONG", "ULONG", "LONGLONG",
   "ULONGLONG", "CHAR", "UCHAR"}

GoBuiltinNames == {"string", "[]uint8", "[]byte"}

\* C8: the leaf of an argument or return-value expression is named by the id
\* and typed with a base scalar type, or STRING / BYTE_ARRAY for the Go
\* built-ins, never VOID_POINTER; a path ending on a pointer is dereferenced
\* once more and its leaf typed as a base type; a path ending on any other
\* aggregate fails.
C8_LeafScalar ==
  /\ (last.op \in {"ProcessArgExpr", "ProcessRetValExpr"} /\ status = "OK") =>
       LET leaf == Last(Emitted)
       IN  /\ leaf.name = last.item.id
           /\ leaf.type # "VOID_POINTER"
           /\ \/ leaf.type \in BaseScalarTypes
              \/ language_ = "GOLANG" /\ leaf.type \in {"STRING", "BYTE_ARRAY"}
  /\ ArgLowered =>
       LET end == Last(ArgPath)
       IN  /\ end.type \in {"kBaseType", "kPointer", "kStruct"}
           /\ end.type = "kStruct" => language_ = "GOLANG" /\ end.type_name \in GoBuiltinNames
           /\ end.type = "kPointer" =>
                /\ Len(Emitted) >= 2
                /\ Emitted[Len(Emitted) - 1].type = "VOID_POINTER"
                /\ Last(Emitted).base = Emitted[Len(Emitted) - 1].name
                /\ Last(Emitted).type \in BaseScalarTypes

C8_Witness ==
  /\ ArgLowered
  /\ last.item.expr = "x.y.p"
  /\ Last(Emitted).type = "INT"

\* The dereference variables among the emitted ones.
DerefVars == {i \in 1..(Len(Emitted) - 1) : EndsWith(Emitted[i].name, "_X_")}

\* C9: a lowered argument expression emits as many _X_ dereference variables
\* as its path has pointer-kind nodes (root, selected fields, a pointer last
\* node included), and besides them only the leaf; a path without pointers
\* emits exactly one Memory variable.
C9_DerefCount ==
  ArgLowered =>
    /\ Cardinality(DerefVars) = Len(PointerPositions(ArgPath, 1))
    /\ Len(Emitted) = Len(PointerPositions(ArgPath, 1)) + 1
    /\ \A i \in 1..Len(Emitted) : IsMemory(Emitted[i])
    /\ ~EndsWith(Last(Emitted).name, "_X_")

C9_Witness ==
  /\ ArgLowered
  /\ last.item.expr = "x.y.p"
  /\ Cardinality(DerefVars) = 3

\* The sum of the offsets of the nodes at positions from..to of a path.
RECURSIVE OffsetSum(_, _, _)
OffsetSum(nodes, from, to) ==
  IF from > to THEN 0 ELSE nodes[from].offset + OffsetSum(nodes, from + 1, to)

\* C10: the j-th variable emitted for an argument expression has as base sp_
\* (j = 1) or the dereference variable emitted before it, and as offset the
\* sum of the offsets of the nodes selected since the previous dereference,
\* plus, for the first variable only, 8 and the offset of the root.
C10_MemoryRecipe ==
  ArgLowered =>
    LET nodes == ArgPath
        ptrs  == PointerPositions(nodes, 1)
        from(j) == IF j = 1 THEN 1 ELSE ptrs[j - 1] + 1
        to(j)   == IF j <= Len(ptrs) THEN ptrs[j] ELSE Len(nodes)
    IN  /\ Len(Emitted) = Len(ptrs) + 1
        /\ \A j \in 1..Len(Emitted) :
             /\ Emitted[j].base = IF j = 1 THEN "sp_" ELSE Emitted[j - 1].name
             /\ Emitted[j].offset =
                  (IF j = 1 THEN 8 ELSE 0) + OffsetSum(nodes, from(j), to(j))

C10_Witness ==
  /\ ArgLowered
  /\ last.item.expr = "v.y.w"
  /\ Emitted[1].offset = 32
  /\ Emitted[2].offset = 24

\* The index a return-value expression names: [ok, value].
RetValIndex(expr) == SimpleAtoi(SubStr(StrSplit(expr)[1], 1))

\* The last call was ProcessRetValExpr in a C or C++ probe, on an expression
\* of index 0.
CRetValCall ==
  /\ last.op = "ProcessRetValExpr"
  /\ language_ \in {"C", "CPP"}
  /\ last.item.expr # ""
  /\ RetValIndex(last.item.expr).ok
  /\ RetValIndex(last.item.expr).value = 0

\* C11: in a C or C++ probe on a function with a base-typed return value, a
\* return-value expression of index 0 and id R emits exactly one variable: a
\* Register variable named R, bound to the register RC and typed by the type
\* mapper from the DWARF return type (INT for int); no Memory variable and no
\* _X_ intermediate is emitted.
C11_BaseReturnRegister ==
  (CRetValCall /\ retval_info_.type = "kBaseType") =>
    LET pb_type == VarTypeToProtoScalarType(language_, retval_info_.type, retval_info_.type_name)
    IN  /\ pb_type.ok
        /\ retval_info_.type_name = "int" => pb_type.value = "INT"
        /\ status = "OK"
        /\ Len(Emitted) = 1
        /\ Emitted[1] = [kind |-> "scalar_var", name |-> last.item.id, type |-> pb_type.value,
                         oneof |-> "reg", reg |-> "RC"]
        /\ ~IsMemory(Emitted[1])
        /\ ~EndsWith(Emitted[1].name, "_X_")

C11_Witness ==
  /\ CRetValCall
  /\ language_ = "CPP"
  /\ CurProbe(output_program).trace_point = [symbol |-> "f", type |-> "RETURN"]
  /\ last.item = [id |-> "R", expr |-> "$0"]
  /\ Emitted[1].reg = "RC"
  /\ Emitted[1].type = "INT"

\* C12: in a C or C++ probe on a function returning a pointer, a lowered
\* return-value expression $0 or $0.<fields> emits at least one _X_
\* dereference variable, the first emitted Memory variable has base rc_, and
\* the leaf carries the id and a base scalar type (g returning Outer*, $0.n
\* with n an int: the dereference R_X_ through rc_, then leaf R of type INT).
C12_PointerReturnDeref ==
  (CRetValCall /\ retval_info_.type = "kPointer" /\ status = "OK") =>
    /\ DerefVars # {}
    /\ \A i \in 1..Len(Emitted) : IsMemory(Emitted[i])
    /\ Emitted[1].base = "rc_"
    /\ EndsWith(Emitted[1].name, "_X_")
    /\ Last(Emitted).name = last.item.id
    /\ Last(Emitted).type \in BaseScalarTypes
    /\ (retval_info_.type_name = "Outer" /\ last.item.expr = "$0.n") =>
         /\ Names(Emitted) = <<last.item.id \o "_X_", last.item.id>>
         /\ Last(Emitted).type = "INT"
         /\ Last(Emitted).base = last.item.id \o "_X_"

C12_Witness ==
  /\ CRetValCall
  /\ status = "OK"
  /\ language_ = "C"
  /\ CurProbe(output_program).trace_point = [symbol |-> "g", type |-> "RETURN"]
  /\ last.item = [id |-> "R", expr |-> "$0.n"]
  /\ Emitted[1].base = "rc_"
  /\ Last(Emitted).type = "INT"

\* The fields a stash action's struct is to have: one per source id, named by
\* the id and typed from the symbol table.
ExpectedStashFields(ids) ==
  [i \in 1..Len(ids) |-> [name |-> ids[i], type |-> scalar_var_types_[ids[i]]]]

\* The last call was a stash action on a declared map with a key of the table.
StashCall ==
  /\ last.op = "ProcessStashAction"
  /\ last.item.map_name \in DOMAIN input.maps
  /\ last.item.key \in DOMAIN kBuiltinVarNames

\* C13: a stash action on a declared map M with source ids v1..vn registers a
\* struct M_value_t with exactly n fields, field i named vi and typed with
\* vi's type in the probe's symbol table, sets M's key type to UINT64 and its
\* value type to M_value_t, appends a Struct variable M_value assigning field
\* vi from variable vi, and appends a MapStashAction (map M, key the variable
\* of the built-in, value M_value, the condition copied); if some vi is not
\* in the symbol table, the stash fails.
C13_StashAction ==
  StashCall =>
    LET M   == last.item.map_name
        ids == last.item.value_variable_name
    IN  IF \E i \in 1..Len(ids) : ids[i] \notin DOMAIN scalar_var_types_
        THEN status # "OK"
        ELSE /\ status = "OK"
             /\ (M \o "_value_t") \in DOMAIN structs_
             /\ output_program.structs[structs_[M \o "_value_t"]]
                  = [name |-> M \o "_value_t", fields |-> ExpectedStashFields(ids)]
             /\ Len(output_program.structs[structs_[M \o "_value_t"]].fields) = Len(ids)
             /\ output_program.maps[M] = [key_type |-> "UINT64", value_type |-> M \o "_value_t"]
             /\ Emitted = <<[kind |-> "struct_var", name |-> M \o "_value",
                             type |-> M \o "_value_t",
                             field_assignments |->
                               [i \in 1..Len(ids) |->
                                  [field_name |-> ids[i], variable_name |-> ids[i]]]]>>
             /\ Last(CurProbe(output_program).map_stash_actions)
                  = [map_name |-> M, key_variable_name |-> kBuiltinVarNames[last.item.key],
                     value_variable_name |-> M \o "_value", cond |-> last.item.cond]

C13_Witness ==
  /\ StashCall
  /\ status = "OK"
  /\ last.item.value_variable_name = <<"tgid_", "time_">>
  /\ output_program.structs[structs_["M_value_t"]].fields
       = <<[name |-> "tgid_", type |-> "INT32"], [name |-> "time_", type |-> "UINT64"]>>
  /\ output_program.maps["M"].key_type = "UINT64"

\* A stash action on map M was processed in a probe before the current one.
StashedEarlier(M) ==
  \E p \in 1..(Len(output_program.probes) - 1) :
    \E i \in 1..Len(output_program.probes[p].map_stash_actions) :
      output_program.probes[p].map_stash_actions[i].map_name = M

\* The last call was a map-value read with a key of the table.
MapValCall == last.op = "ProcessMapVal" /\ last.item.key \in DOMAIN kBuiltinVarNames

\* C14: the struct and map registries persist across the probes of one
\* assembly: once a stash action on map M has been processed in a probe, a
\* map-value read of M in a later probe (naming no more ids than M_value_t
\* has fields) succeeds and emits the MapLookup variable M_ptr, keyed by the
\* variable of the built-in, followed by one pointer-based Member variable
\* per value id, the k-th named value_ids[k], typed from and bound to the
\* k-th field of the registered M_value_t; each id enters the symbol table
\* of the later probe with that type.
C14_RegistryPersists ==
  (MapValCall /\ StashedEarlier(last.item.map_name)) =>
    LET M    == last.item.map_name
        ids  == last.item.value_ids
        decl == output_program.structs[structs_[M \o "_value_t"]]
    IN  /\ (M \o "_value_t") \in DOMAIN structs_
        /\ Len(ids) <= Len(decl.fields) =>
             /\ status = "OK"
             /\ Len(Emitted) = 1 + Len(ids)
             /\ Emitted[1] = [kind |-> "map_var", name |-> M \o "_ptr",
                              type |-> M \o "_value_t", map_name |-> M,
                              key_variable_name |-> kBuiltinVarNames[last.item.key]]
             /\ \A k \in 1..Len(ids) :
                  /\ Emitted[1 + k] = [kind |-> "member_var", name |-> ids[k],
                                       type |-> decl.fields[k].type,
                                       struct_base |-> M \o "_ptr",
                                       is_struct_base_pointer |-> TRUE,
                                       field |-> decl.fields[k].name]
                  /\ ids[k] \in DOMAIN scalar_var_types_
                  /\ scalar_var_types_[ids[k]] = decl.fields[k].type

C14_Witness ==
  /\ MapValCall
  /\ StashedEarlier("M")
  /\ last.item = [map_name |-> "M", key |-> "TGID_PID", value_ids |-> <<"start_ktime_ns">>]
  /\ Len(output_program.probes) = 2
  /\ output_program.structs[structs_["M_value_t"]].fields = <<[name |-> "time_", type |-> "UINT64"]>>
  /\ Names(Emitted) = <<"M_ptr", "start_ktime_ns">>
  /\ Emitted[2].type = "UINT64"

\* The last call was an output action on a declared output.
OutputCall ==
  /\ last.op = "ProcessOutputAction"
  /\ last.item.output_name \in DOMAIN input.outputs

\* C15: an output action whose number of source variable ids differs from the
\* number of fields the output declares fails; on success the generated
\* struct has |implicit columns| + (number of declared fields) fields, and
\* the Struct variable <output>_value has one field assignment per struct
\* field, in struct order, implicit columns first, each mapping the struct
\* field to its source variable.
C15_OutputArity ==
  OutputCall =>
    LET O        == last.item.output_name
        ids      == last.item.variable_name
        declared == input.outputs[O].fields
        sources  == implicit_columns_ \o ids
        decl     == output_program.structs[structs_[O \o "_value_t"]]
    IN  /\ Len(ids) # Len(declared) => status # "OK"
        /\ status = "OK" =>
             /\ (O \o "_value_t") \in DOMAIN structs_
             /\ Len(decl.fields) = Len(implicit_columns_) + Len(declared)
             /\ Names(decl.fields) = implicit_columns_ \o declared
             /\ Len(Emitted) = 1
             /\ Emitted[1].kind = "struct_var"
             /\ Emitted[1].name = O \o "_value"
             /\ Emitted[1].type = O \o "_value_t"
             /\ Len(Emitted[1].field_assignments) = Len(decl.fields)
             /\ \A i \in 1..Len(decl.fields) :
                  Emitted[1].field_assignments[i]
                    = [field_name |-> decl.fields[i].name, variable_name |-> sources[i]]

C15_Witness ==
  /\ OutputCall
  /\ status = "OK"
  /\ language_ = "GOLANG"
  /\ last.item.variable_name = <<"A">>
  /\ Emitted[1].field_assignments[5] = [field_name |-> "f1", variable_name |-> "A"]
  /\ Emitted[1].field_assignments[4] = [field_name |-> "goid_", variable_name |-> "goid_"]

\* The binary expressions among the variables of a probe.
IsBinaryExpr(v) == v.kind = "scalar_var" /\ v.oneof = "binary_expr"

\* C16: a function-latency request in a probe whose symbol table does not
\* contain start_ktime_ns fails; hence in every assembled probe the latency
\* BinaryExpr (INT64, SUB, lhs time_, rhs start_ktime_ns) has both operands
\* defined earlier in the same probe's variable list.
C16_LatencyOperandsDefined ==
  /\ (last.op = "ProcessFunctionLatency" /\ "start_ktime_ns" \notin DOMAIN scalar_var_types_)
       => status # "OK"
  /\ Assembled =>
       \A p \in 1..Len(output_program.probes) :
         LET vs == output_program.probes[p].vars
         IN  \A i \in 1..Len(vs) :
               IsBinaryExpr(vs[i]) =>
                 /\ vs[i].type = "INT64" /\ vs[i].op = "SUB"
                 /\ vs[i].lhs = "time_" /\ vs[i].rhs = "start_ktime_ns"
                 /\ \E j \in 1..(i - 1) : vs[j].name = vs[i].lhs
                 /\ \E j \in 1..(i - 1) : vs[j].name = vs[i].rhs

\* The handler calls that process a probe.
ProbeSteps ==
  {"GenerateProbe", "ProcessConstants", "ProcessArgExpr", "ProcessRetValExpr",
   "ProcessMapVal", "ProcessFunctionLatency", "ProcessStashAction",
   "ProcessDeleteAction", "ProcessOutputAction", "printk"}

\* C17: the pass is fail-fast: a step is only ever taken while no step has
\* failed; the step that fails makes AddDwarves return that error and
\* nothing else, and from then on no later step and no later probe is
\* processed: the program under assembly, with the probes, variables and
\* structs produced before the failure, is never returned.
C17_FailFast ==
  [][/\ status = "OK"
     /\ returned = "none"
     /\ status' # "OK" => (returned' = "error" /\ pc' = "failed")
     /\ returned' = "program" => status' = "OK"]_vars

\* A step of a probe failed after probes, variables and structs were produced.
C17_Witness ==
  /\ last.op \in ProbeSteps
  /\ status # "OK"
  /\ returned = "error"
  /\ pc = "failed"
  /\ Len(output_program.probes) = 2
  /\ output_program.structs # <<>>
  /\ last.op = "ProcessDeleteAction"

\* C18: for a C or C++ pointer return value the chain is rooted at rc_ with
\* offset 0: the first Memory variable emitted for the expression has base
\* rc_ and offset 0, the 8-byte stack-pointer bias not being added to a chain
\* rooted at the return register.
C18_ReturnChainNoBias ==
  (CRetValCall /\ retval_info_.type = "kPointer" /\ status = "OK") =>
    /\ IsMemory(Emitted[1])
    /\ Emitted[1].base = "rc_"
    /\ Emitted[1].offset = 0

\* The names of the variables of a probe.
VarNames(probe) == {probe.vars[i].name : i \in 1..Len(probe.vars)}

\* The key variable names the lookups and actions of a probe refer to.
KeyVariableNames(probe) ==
  {probe.vars[i].key_variable_name : i \in {k \in 1..Len(probe.vars) : probe.vars[k].kind = "map_var"}}
  \cup {probe.map_stash_actions[i].key_variable_name : i \in 1..Len(probe.map_stash_actions)}
  \cup {probe.map_delete_actions[i].key_variable_name : i \in 1..Len(probe.map_delete_actions)}

\* C19: in every assembled probe the key variable name of each MapLookup
\* variable, MapStashAction and MapDeleteAction, obtained from the built-in
\* through the fixed table, names a variable of the probe's variable list,
\* for every language; a built-in outside the table is an error.
C19_KeyVariablesDefined ==
  /\ (Assembled /\ language_ \in {"GOLANG", "C", "CPP"}) =>
       \A p \in 1..Len(output_program.probes) :
         KeyVariableNames(output_program.probes[p]) \subseteq VarNames(output_program.probes[p])
  /\ (last.op \in {"ProcessMapVal", "ProcessStashAction", "ProcessDeleteAction"}
        /\ last.item.key \notin DOMAIN kBuiltinVarNames) => status # "OK"

\* The names of the variables the current probe held before the last call.
VarNamesBefore ==
  {CurProbe(output_program).vars[i].name : i \in 1..last.nvars}

\* The source variable ids of the last call, a stash or an output action.
SourceIds ==
  LET ids == IF last.op = "ProcessStashAction" THEN last.item.value_variable_name
             ELSE last.item.variable_name
  IN  {ids[i] : i \in 1..Len(ids)}

\* C20: the symbol table is reset at the start of each probe: it holds only
\* variables of the probe being processed, so a variable defined only in
\* another probe is not visible, and a stash or output action naming it as a
\* source fails; the implicit columns are visible in every probe, being
\* emitted again at the head of each.
C20_SymbolTableReset ==
  /\ output_program.probes # <<>> =>
       /\ DOMAIN scalar_var_types_ \subseteq VarNames(CurProbe(output_program))
       /\ \A p \in 1..Len(output_program.probes) :
            \A k \in 1..Len(implicit_columns_) :
              \E i \in 1..Len(output_program.probes[p].vars) :
                /\ output_program.probes[p].vars[i].name = implicit_columns_[k]
                /\ output_program.probes[p].vars[i].kind = "scalar_var"
                /\ output_program.probes[p].vars[i].oneof = "builtin"
       /\ (pc = "probes" /\ phase >= 1) =>
            \A k \in 1..Len(implicit_columns_) : implicit_columns_[k] \in DOMAIN scalar_var_types_
  /\ (last.op \in {"ProcessStashAction", "ProcessOutputAction"}
        /\ ~(SourceIds \subseteq VarNamesBefore)) => status # "OK"

\* A stash in the second probe names A, which only the first probe defined.
C20_Witness ==
  /\ last.op = "ProcessStashAction"
  /\ last.item.value_variable_name = <<"A">>
  /\ Len(output_program.probes) = 2
  /\ "A" \in VarNames(output_program.probes[1])
  /\ "A" \notin VarNames(output_program.probes[2])
  /\ status # "OK"

\* C21: a map-value read of map M succeeds only if M is declared and a stash
\* action on M was processed earlier in the same assembly, in an earlier
\* probe; a read with no such stash fails, that of a probe which both reads
\* and stashes M included, reads being processed before stash actions.
C21_ReadNeedsEarlierStash ==
  (last.op = "ProcessMapVal" /\ status = "OK") =>
    /\ last.item.map_name \in DOMAIN input.maps
    /\ StashedEarlier(last.item.map_name)

\* The Member variables among the emitted ones.
EmittedMembers == {i \in 1..Len(Emitted) : Emitted[i].kind = "member_var"}

\* C22: a map-value read that lists more value ids than the registered value
\* struct of the map has fields fails; no Member variable is ever emitted
\* for a value id whose index is at or beyond the struct's field count.
C22_TooManyValueIds ==
  (last.op = "ProcessMapVal"
     /\ last.item.map_name \in DOMAIN input.maps
     /\ StructTypeName(last.item.map_name) \in DOMAIN structs_) =>
    LET fields == output_program.structs[structs_[StructTypeName(last.item.map_name)]].fields
    IN  /\ Len(last.item.value_ids) > Len(fields) => status # "OK"
        /\ Cardinality(EmittedMembers) <= Len(fields)

\* The maps the lookups and actions of a probe name, and the outputs its
\* output actions name.
MapsNamed(probe) ==
  {probe.vars[i].map_name : i \in {k \in 1..Len(probe.vars) : probe.vars[k].kind = "map_var"}}
  \cup {probe.map_stash_actions[i].map_name : i \in 1..Len(probe.map_stash_actions)}
  \cup {probe.map_delete_actions[i].map_name : i \in 1..Len(probe.map_delete_actions)}

OutputsNamed(probe) ==
  {probe.output_actions[i].perf_buffer_name : i \in 1..Len(probe.output_actions)}

\* C23: a map-value read, stash action or delete action naming an undeclared
\* map, and an output action naming an undeclared output, fail; so no action
\* of an assembled program names a map or output missing from the program's
\* maps and outputs.
C23_NamesDeclared ==
  /\ (last.op \in {"ProcessMapVal", "ProcessStashAction", "ProcessDeleteAction"}
        /\ last.item.map_name \notin DOMAIN input.maps) => status # "OK"
  /\ (last.op = "ProcessOutputAction" /\ last.item.output_name \notin DOMAIN input.outputs)
       => status # "OK"
  /\ Assembled =>
       \A p \in 1..Len(output_program.probes) :
         /\ MapsNamed(output_program.probes[p]) \subseteq DOMAIN output_program.maps
         /\ OutputsNamed(output_program.probes[p]) \subseteq DOMAIN output_program.outputs

\* The constants among the variables of the current probe before the last call.
ConstantsBefore ==
  {CurProbe(output_program).vars[i].name :
     i \in {k \in 1..last.nvars : /\ CurProbe(output_program).vars[k].kind = "scalar_var"
                                   /\ CurProbe(output_program).vars[k].oneof = "constant"}}

\* C24: every scalar variable emitted into a probe, each constant included,
\* is recorded in the probe's symbol table with its scalar type (that of the
\* last variable of the name), so a later stash action of the same probe that
\* names constants as its source variables resolves them and types the
\* struct fields with the constants' declared types.
C24_ConstantsInSymbolTable ==
  /\ (pc = "probes" /\ phase >= 1) =>
       LET vs == CurProbe(output_program).vars
       IN  \A i \in 1..Len(vs) :
             (vs[i].kind \in {"scalar_var", "member_var"}
                /\ \A j \in (i + 1)..Len(vs) : vs[j].name # vs[i].name) =>
               /\ vs[i].name \in DOMAIN scalar_var_types_
               /\ scalar_var_types_[vs[i].name] = vs[i].type
  /\ (StashCall /\ SourceIds \subseteq ConstantsBefore) =>
       /\ status = "OK"
       /\ Last(output_program.structs).fields
            = [i \in 1..Len(last.item.value_variable_name) |->
                 [name |-> last.item.value_variable_name[i], type |-> "INT64"]]

\* The names of the special variables.
SpecialNames ==
  {kSPVarName, kTGIDVarName, kTGIDPIDVarName, kTGIDStartTimeVarName, kKTimeVarName,
   kGOIDVarName, kRCVarName}

\* The special variables a probe of a language and tracepoint type starts with.
ExpectedSpecials(language, type) ==
  <<"sp_", "tgid_", "tgid_pid_", "tgid_start_time_", "time_">>
  \o (IF language = "GOLANG" THEN <<"goid_">> ELSE <<>>)
  \o (IF type = "RETURN" /\ language \in {"C", "CPP"} THEN <<"rc_">> ELSE <<>>)

\* The ids of the expressions of ProgramItems and the names of the struct
\* variables of its actions.
ArgIds == {a.id : a \in ProgramItems.args}

RetValIds == {r.id : r \in ProgramItems.ret_vals}

StashVarNames == {s.map_name \o "_value" : s \in ProgramItems.stashes}

OutputVarNames == {o.output_name \o "_value" : o \in ProgramItems.outputs}

\* The group of ProcessProbe a variable of a program of ProgramItems belongs
\* to: 0 special, 1 constant, 2 argument expression, 3 return-value
\* expression, 4 map-value read, 5 latency, 6 stash struct, 7 output struct.
GroupOf(v) ==
  CASE v.kind = "scalar_var" /\ v.oneof \in {"reg", "builtin"} /\ v.name \in SpecialNames -> 0
    [] v.kind = "scalar_var" /\ v.oneof = "constant" -> 1
    [] v.kind = "scalar_var" /\ v.oneof \in {"reg", "memory"} /\ v.name \notin SpecialNames ->
         IF v.name \in ArgIds THEN 2 ELSE IF v.name \in RetValIds THEN 3 ELSE -1
    [] v.kind \in {"map_var", "member_var"} -> 4
    [] v.kind = "scalar_var" /\ v.oneof = "binary_expr" -> 5
    [] v.kind = "struct_var" ->
         IF v.name \in StashVarNames THEN 6 ELSE IF v.name \in OutputVarNames THEN 7 ELSE -1
    [] OTHER -> -1

\* C25: each probe's variable list starts with the special variables sp_,
\* tgid_, tgid_pid_, tgid_start_time_, time_, then goid_ exactly for Go, then
\* rc_ exactly for a return probe of a C or C++ program; after them come the
\* constants, the variables of the argument expressions, of the return-value
\* expressions, of the map-value reads, the latency variable, the stash
\* struct variables and the output struct variables, in this order; the
\* program has one probe per logical probe, in input order.
C25_VariableOrder ==
  /\ \A p \in 1..Len(output_program.probes) :
       LET probe == output_program.probes[p]
           vs    == probe.vars
           head  == ExpectedSpecials(language_, probe.trace_point.type)
           group == [i \in 1..Len(vs) |-> GroupOf(vs[i])]
       IN  /\ Len(vs) >= Len(head)
           /\ Names(SubSeq(vs, 1, Len(head))) = head
           /\ \A i \in 1..Len(vs) : group[i] = 0 <=> i <= Len(head)
           /\ \A i \in 1..Len(vs) : group[i] >= 0
           /\ \A i \in 1..(Len(vs) - 1) : group[i] <= group[i + 1]
           /\ Cardinality({i \in 1..Len(vs) : group[i] = 5}) <= 1
  /\ (last.op \in ProbeSteps) =>
       IF last.op = "GenerateProbe" /\ status = "OK"
       THEN /\ Len(output_program.probes) = last.nprobes + 1
            /\ CurProbe(output_program).name = last.item.name
            /\ CurProbe(output_program).trace_point = last.item.trace_point
       ELSE Len(output_program.probes) = last.nprobes

C25_Witness ==
  /\ language_ = "GOLANG"
  /\ status = "OK"
  /\ last.op = "ProcessOutputAction"
  /\ Names(CurProbe(output_program).vars)
       = <<"sp_", "tgid_", "tgid_pid_", "tgid_start_time_", "time_", "goid_",
           "K", "A", "R", "O_value">>

\* A component of the form $<integer>.
IsDollarInteger(component) ==
  /\ Len(component) >= 2
  /\ SubSeq(component, 1, 1) = "$"
  /\ SimpleAtoi(SubStr(component, 1)).ok

\* C26: a return-value expression is accepted only if its first component
\* has the form $<integer>: an empty expression, or a first component that
\* is not a '$' followed by an integer, fails (with InvalidArgument, of which
\* only the failure is required here) and no variable is emitted for it.
C26_RetValForm ==
  (last.op = "ProcessRetValExpr"
     /\ (last.item.expr = "" \/ ~IsDollarInteger(StrSplit(last.item.expr)[1]))) =>
    /\ status # "OK"
    /\ Len(Emitted) = 0

\* The last call was ProcessRetValExpr on an expression whose index parses.
IndexedRetValCall ==
  /\ last.op = "ProcessRetValExpr"
  /\ last.item.expr # ""
  /\ RetValIndex(last.item.expr).ok

\* C27: return-value lowering follows the language's convention: in Go, $N
\* resolves to the DWARF argument named ~rN and is lowered from sp_ (an error
\* if there is no such argument); in C and C++ only index 0 is accepted, a
\* void return type is an error and a return kind other than base or pointer
\* is an error; for any other language every return-value expression is an
\* error.
C27_ReturnConventions ==
  IndexedRetValCall =>
    LET N == RetValIndex(last.item.expr).value
    IN  CASE language_ = "GOLANG" ->
               /\ ("~r" \o IntToStr(N)) \notin DOMAIN args_map_ => status # "OK"
               /\ status = "OK" =>
                    /\ IsMemory(Emitted[1])
                    /\ Emitted[1].base = "sp_"
                    /\ Emitted[1].offset = 8 + args_map_["~r" \o IntToStr(N)].offset
                    /\ Last(Emitted).name = last.item.id
          [] language_ \in {"C", "CPP"} ->
               /\ N # 0 => status # "OK"
               /\ retval_info_.type = "kVoid" => status # "OK"
               /\ retval_info_.type \notin {"kBaseType", "kPointer"} => status # "OK"
               /\ status = "OK" => (N = 0 /\ retval_info_.type \in {"kBaseType", "kPointer"})
          [] OTHER -> status # "OK"

C27_Witness ==
  /\ IndexedRetValCall
  /\ language_ = "GOLANG"
  /\ last.item.expr = "$3"
  /\ status = "OK"
  /\ Emitted = <<[kind |-> "scalar_var", name |-> "R", type |-> "INT", oneof |-> "memory",
                  base |-> "sp_", offset |-> 88]>>

\* C28: the type mapper is a total function of (language, kind, type name):
\* kind pointer gives VOID_POINTER for every language and name; kind base
\* gives the entry of the language's table (the Go table for Go, the table of
\* C spellings for both C and C++) and an error when the name is absent or
\* the language is none of the three; kind struct gives STRING for 'string'
\* and BYTE_ARRAY for '[]uint8' and '[]byte' in Go only, and an error
\* otherwise; every other kind gives an error.
C28_TypeMapperTotal ==
  last.op = "VarTypeToProtoScalarType" =>
    LET r     == last.result
        name  == input.name
        table == IF input.language = "GOLANG" THEN kGoTypesMap
                 ELSE IF input.language \in {"C", "CPP"} THEN kCPPTypesMap
                 ELSE EmptyMap
        error == [ok |-> FALSE, value |-> "Internal"]
    IN  /\ r.ok \in BOOLEAN
        /\ CASE input.type = "kPointer" -> r = [ok |-> TRUE, value |-> "VOID_POINTER"]
             [] input.type = "kBaseType" ->
                  IF name \in DOMAIN table
                  THEN r = [ok |-> TRUE, value |-> table[name]]
                  ELSE r = error
             [] input.type = "kStruct" ->
                  IF input.language = "GOLANG" /\ name = "string"
                  THEN r = [ok |-> TRUE, value |-> "STRING"]
                  ELSE IF input.language = "GOLANG" /\ name \in {"[]uint8", "[]byte"}
                  THEN r = [ok |-> TRUE, value |-> "BYTE_ARRAY"]
                  ELSE r = error
             [] OTHER -> r = error
        /\ (input.type = "kBaseType" /\ name = "long int") =>
             r.ok = (input.language \in {"C", "CPP"})
        /\ (input.type = "kBaseType" /\ name = "int64") => r.ok = (input.language = "GOLANG")
        /\ status = IF r.ok THEN "OK" ELSE "Internal"

C28_Witness ==
  /\ last.op = "VarTypeToProtoScalarType"
  /\ input = [language |-> "CPP", type |-> "kBaseType", name |-> "long int"]
  /\ last.result = [ok |-> TRUE, value |-> "LONG"]

\* The variables named by an id or constant name of the logical program.
UserNamed(v) ==
  \/ v.kind = "member_var"
  \/ v.kind = "scalar_var" /\ v.oneof \in {"constant", "memory", "binary_expr"}
  \/ v.kind = "scalar_var" /\ v.oneof = "reg" /\ v.name \notin SpecialNames

\* C29: in every probe of an assembled program no two entries of the variable
\* list carry the same name, whatever the expressions and however many
\* map-value reads, stash actions and output actions the probe has (the ids
\* and constant names the logical probe itself chooses being distinct).
C29_UniqueNames ==
  Assembled =>
    \A p \in 1..Len(output_program.probes) :
      LET vs   == output_program.probes[p].vars
          user == {i \in 1..Len(vs) : UserNamed(vs[i])}
      IN  (\A i \in user : \A j \in user : vs[i].name = vs[j].name => i = j) =>
            \A i \in 1..Len(vs) : \A j \in 1..Len(vs) : vs[i].name = vs[j].name => i = j

\* The types the special-variable injector gives the implicit columns.
ImplicitColumnTypes ==
  ("tgid_" :> "INT32") @@ ("tgid_start_time_" :> "UINT64") @@ ("time_" :> "UINT64")
    @@ ("goid_" :> "INT64")

\* C30: in every generated output struct the implicit column fields carry
\* the types given by the special-variable injector (tgid_ INT32,
\* tgid_start_time_ UINT64, time_ UINT64, goid_ INT64), whatever ids the
\* probe's expressions, map-value reads and latency request use; no id of
\* the logical program changes the symbol-table type of a special variable.
C30_ImplicitColumnTypes ==
  /\ (OutputCall /\ status = "OK") =>
       LET fields == Last(output_program.structs).fields
       IN  \A k \in 1..Len(implicit_columns_) :
             /\ fields[k].name = implicit_columns_[k]
             /\ fields[k].type = ImplicitColumnTypes[implicit_columns_[k]]
  /\ (pc = "probes" /\ phase >= 1) =>
       \A k \in 1..Len(implicit_columns_) :
         scalar_var_types_[implicit_columns_[k]] = ImplicitColumnTypes[implicit_columns_[k]]

====
